---- MODULE Spec2Model ----
(***************************************************************************)
(* Model of yolo_tf2/utils/dataset_handlers.py: the partitioner save_tfr,  *)
(* the writer write_tf_record with the codec create_example, and the       *)
(* reader read_tfr with the decoder read_example.                          *)
(*                                                                         *)
(* Representation choices:                                                 *)
(*  - a string that the code searches or splits (a path) is a sequence of  *)
(*    words; `'train' in path` is the presence of the word "train";        *)
(*  - a float is a reduced fraction <<numerator, denominator>>; the        *)
(*    float32 rounding of FloatList is not modelled;                       *)
(*  - test_size is a number of Denom-ths; with Denom = 4 every value and   *)
(*    every product (1 - test_size) * n is exact in binary floating point. *)
(***************************************************************************)
EXTENDS Integers, Sequences, FiniteSets, TLC

VARIABLES
    columns,          \* data.columns: the column order of the table
    input,            \* the table as the caller passed it (rows)
    data,             \* the rows of the DataFrame `data`, mutated in place
    test_size,        \* numerator of test_size over Denom
    output_folder,    \* words of the output folder
    dataset_name,     \* words of the dataset name
    trainer,          \* the trainer argument and its two record paths
    pc,               \* position in save_tfr
    err,              \* the exception that ended save_tfr, or "none"
    csv,              \* the three snapshot tables on disk
    groups,           \* the shuffled array of (image_path, objects)
    separation_index,
    training_set,
    test_set,
    tfrecords,        \* the containers on disk, by path
    writer,           \* the running write_tf_record call
    open_writers,     \* open TFRecordWriter handles
    image_handles,    \* open source image handles
    pattern,          \* read_tfr: tf_record_file
    max_boxes,        \* read_tfr: max_boxes
    opens             \* the iterations made over the dataset of read_tfr

vars == <<columns, input, data, test_size, output_folder, dataset_name,
          trainer, pc, err, csv, groups, separation_index, training_set,
          test_set, tfrecords, writer, open_writers, image_handles,
          pattern, max_boxes, opens>>

pipeline_vars == <<columns, input, data, test_size, output_folder,
                   dataset_name, trainer, pc, err, csv, groups,
                   separation_index, training_set, test_set, writer,
                   open_writers, image_handles>>

reader_vars == <<pattern, max_boxes, opens>>

(***************************************************************************)
(* Bounds                                                                  *)
(***************************************************************************)
MaxRows == 3        \* rows of the annotation table
Denom == 4          \* test_size is test_size / Denom
MaxObjects == 2     \* objects of one record read back
MaxRecords == 2     \* records appended before the containers are read
NumOpenings == 2    \* iterations over the dataset of read_tfr

(***************************************************************************)
(* Helpers                                                                 *)
(***************************************************************************)
Range(s) == {s[i] : i \in DOMAIN s}

Min(a, b) == IF a < b THEN a ELSE b

Max(a, b) == IF a > b THEN a ELSE b

Abs(x) == IF x < 0 THEN -x ELSE x

RECURSIVE GCD(_, _)
GCD(a, b) == IF b = 0 THEN a ELSE GCD(b, a % b)

Reduce(q) == LET g == GCD(q[1], q[2]) IN <<q[1] \div g, q[2] \div g>>

RECURSIVE Flatten(_)
Flatten(ss) == IF ss = <<>> THEN <<>> ELSE Head(ss) \o Flatten(Tail(ss))

Orderings(S) ==
    {s \in [1..Cardinality(S) -> S] : \A i, j \in DOMAIN s : s[i] = s[j] => i = j}

Last(s) == s[Len(s)]

(***************************************************************************)
(* Python and library primitives                                          *)
(***************************************************************************)
\* str.encode('utf-8'): a bytes object, never equal to the str
Encode(s) == <<"utf8", s>>

\* a / b on two Python ints: the float a/b
TrueDivideTwice(a, b) == Reduce(<<a, b * b>>)

TrueDivide(a, b) == Reduce(<<a, b>>)

\* int(num / Denom): truncation toward zero
IntTrunc(num, den) == IF num >= 0 THEN num \div den ELSE -((-num) \div den)

\* seq[:i] and seq[i:] with Python's index clipping
ClipIndex(i, n) == IF i < 0 THEN Max(n + i, 0) ELSE Min(i, n)

SliceTo(s, i) == SubSeq(s, 1, ClipIndex(i, Len(s)))

SliceFrom(s, i) == SubSeq(s, ClipIndex(i, Len(s)) + 1, Len(s))

\* `word in path`
Contains(path, word) == \E i \in DOMAIN path : path[i] = word

\* open(image_path, 'rb').read()
ImageData(image_path) == <<"bytes", image_path>>

\* hashlib.sha256(image_data).hexdigest()
Sha256Hex(image_data) == <<"sha256", image_data>>

(***************************************************************************)
(* Tables                                                                  *)
(***************************************************************************)
\* the column order the specification gives for the source table
SpecColumns == <<"image_path", "image_width", "image_height", "x_min",
                 "y_min", "x_max", "y_max", "object_name", "object_id">>

\* the column order create_example unpacks; it ignores columns 9 and 10
CodeColumns == <<"image_path", "object_name", "image_width", "image_height",
                 "x_min", "y_min", "x_max", "y_max", "ignored_1",
                 "ignored_2", "object_id">>

NumericColumns == {"image_width", "image_height", "x_min", "y_min", "x_max",
                   "y_max", "ignored_1", "ignored_2", "object_id"}

ImageA == <<"imgs", "a", "png">>
ImageB == <<"imgs", "b", "png">>
ImageC == <<"imgs", "c", "png">>

\* the image paths in their sorted order
ImageOrder == <<ImageA, ImageB, ImageC>>

MakeRow(cols, image, w, h, box, name, id) ==
    [c \in Range(cols) |->
        CASE c = "image_path" -> image
          [] c = "image_width" -> w
          [] c = "image_height" -> h
          [] c = "x_min" -> box[1]
          [] c = "y_min" -> box[2]
          [] c = "x_max" -> box[3]
          [] c = "y_max" -> box[4]
          [] c = "object_name" -> name
          [] c = "object_id" -> id
          [] OTHER -> 0]

RowPool(cols) ==
    { MakeRow(cols, ImageA, 2, 4, <<1, 1, 2, 3>>, "cat", 0),
      MakeRow(cols, ImageA, 2, 4, <<0, 2, 1, 4>>, "dog", -1),
      MakeRow(cols, ImageB, 4, 2, <<1, 0, 3, 2>>, "dog", 1),
      MakeRow(cols, ImageC, 4, 4, <<2, 1, 4, 3>>, "cat", 0) }

Tables(cols) ==
    UNION { {t \in [1..n -> RowPool(cols)] :
                \A i, j \in 1..n : t[i] = t[j] => i = j} : n \in 1..MaxRows }

Folders == { <<"out">>, <<"data", "train">> }

DatasetNames == { <<"coco">>, <<"test", "set">> }

TestSizes == (-1)..(Denom + 2)


(***************************************************************************)
(* save_tfr: validation, normalisation, grouping, split, snapshots         *)
(***************************************************************************)
\* the condition of the assert that opens save_tfr
ValidTestSizeLoose(t) == 0 < t

ValidTestSize(t) == 0 < t /\ t < Denom

\* lines 200-204: object_name encoded, object_id cast, abs() of the int columns
NormalizeRow(row) ==
    [c \in DOMAIN row |->
        IF c = "object_name" THEN Encode(row[c])
        ELSE IF c \in NumericColumns THEN Abs(row[c])
        ELSE row[c]]

NormalizeData(rows) == [i \in DOMAIN rows |-> NormalizeRow(rows[i])]

\* data.groupby('image_path'): one (key, rows) pair per key, keys sorted,
\* the rows of a group in their order in the table
GroupBy(rows) ==
    LET keys == SelectSeq(ImageOrder,
                   LAMBDA p : \E i \in DOMAIN rows : rows[i]["image_path"] = p)
    IN [k \in DOMAIN keys |->
          <<keys[k], SelectSeq(rows, LAMBDA r : r["image_path"] = keys[k])>>]

\* int((1 - test_size) * len(groups))
SeparationIndex(t, n) == IntTrunc((Denom - t) * n, Denom)

\* pd.concat([item[1] for item in subset]); it raises on an empty list
CanConcat(subset) == subset # <<>>

Concat(subset) == Flatten([i \in DOMAIN subset |-> subset[i][2]])

\* get_abs_path(output_folder, f'{dataset_name}_train.tfrecord')
training_path == output_folder \o dataset_name \o <<"_", "train", ".tfrecord">>

\* get_abs_path(output_folder, f'{dataset_name}_test.tfrecord')
test_path == output_folder \o dataset_name \o <<"_", "test", ".tfrecord">>

NoFile == [written |-> FALSE, rows |-> <<>>]

NoContainer == [exists |-> FALSE, records |-> <<>>]

NoWriter == [output_path |-> <<>>, groups |-> <<>>, current_image |-> 0]

Raise(e) ==
    /\ pc' = "raised"
    /\ err' = e

\* line 197: the assert
Validate ==
    /\ pc = "save_tfr"
    /\ IF ValidTestSize(test_size)
          THEN pc' = "normalize" /\ err' = err
          ELSE Raise("AssertionError")
    /\ UNCHANGED <<columns, input, data, test_size, output_folder,
                   dataset_name, trainer, csv, groups, separation_index,
                   training_set, test_set, tfrecords, writer, open_writers,
                   image_handles, reader_vars>>

\* lines 200-208: the table is normalised in place and saved as full_data.csv
Normalize ==
    /\ pc = "normalize"
    /\ data' = NormalizeData(data)
    /\ csv' = [csv EXCEPT !["full_data.csv"] =
                   [written |-> TRUE, rows |-> NormalizeData(data)]]
    /\ pc' = "split"
    /\ UNCHANGED <<columns, input, test_size, output_folder, dataset_name,
                   trainer, err, groups, separation_index, training_set,
                   test_set, tfrecords, writer, open_writers, image_handles,
                   reader_vars>>

\* lines 209-213: group, shuffle, split
Split ==
    /\ pc = "split"
    /\ LET g == GroupBy(data)
       IN \E perm \in Orderings(DOMAIN g) :
            LET shuffled == [i \in DOMAIN g |-> g[perm[i]]]
                idx == SeparationIndex(test_size, Len(shuffled))
            IN /\ groups' = shuffled
               /\ separation_index' = idx
               /\ training_set' = SliceTo(shuffled, idx)
               /\ test_set' = SliceFrom(shuffled, idx)
    /\ pc' = "snapshots"
    /\ UNCHANGED <<columns, input, data, test_size, output_folder,
                   dataset_name, trainer, err, csv, tfrecords, writer,
                   open_writers, image_handles, reader_vars>>

\* lines 214-223: both frames are concatenated, then both snapshots saved
Snapshots ==
    /\ pc = "snapshots"
    /\ IF CanConcat(training_set) /\ CanConcat(test_set)
          THEN /\ csv' = [csv EXCEPT
                     !["training_data.csv"] =
                         [written |-> TRUE, rows |-> Concat(training_set)],
                     !["test_data.csv"] =
                         [written |-> TRUE, rows |-> Concat(test_set)]]
               /\ pc' = "call_train"
               /\ err' = err
          ELSE /\ Raise("ValueError")
               /\ csv' = csv
    /\ UNCHANGED <<columns, input, data, test_size, output_folder,
                   dataset_name, trainer, groups, separation_index,
                   training_set, test_set, tfrecords, writer, open_writers,
                   image_handles, reader_vars>>


(***************************************************************************)
(* write_tf_record and create_example                                      *)
(***************************************************************************)
\* pd.DataFrame(objects, columns=data.columns).T.to_numpy(): one array row
\* per column, in the column order of the table
SeparateData(objects, cols) ==
    [c \in DOMAIN cols |-> [r \in DOMAIN objects |-> objects[r][cols[c]]]]

\* a /= b on two rows of the object array separate_data: what it raises
DivideError(sd, cols, a, b) ==
    IF cols[a] \notin NumericColumns \/ cols[b] \notin NumericColumns
        THEN "TypeError"
    ELSE IF \E r \in DOMAIN sd[b] : sd[b][r] = 0
        THEN "ZeroDivisionError"
    ELSE "none"

\* a /= b: row a divided element by element, in place, by row b
Divide(sd, a, b) ==
    [sd EXCEPT ![a] = [r \in DOMAIN sd[a] |-> TrueDivide(sd[a][r], sd[b][r])]]

\* lines 165-176: separate_data[2:8] is unpacked by position as image_width,
\* image_height, x_min, y_min, x_max, y_max (array rows 3..8 counted from 1),
\* then x_min /= image_width, x_max /= image_width, y_min /= image_height,
\* y_max /= image_height, each on a view of separate_data
DivisionSteps == << <<5, 3>>, <<7, 3>>, <<6, 4>>, <<8, 4>> >>

RECURSIVE NormalizeFrom(_, _, _)
NormalizeFrom(sd, cols, k) ==
    IF k > Len(DivisionSteps) THEN [err |-> "none", separate_data |-> sd]
    ELSE LET a == DivisionSteps[k][1]
             b == DivisionSteps[k][2]
             e == DivideError(sd, cols, a, b)
         IN IF e # "none" THEN [err |-> e, separate_data |-> sd]
            ELSE NormalizeFrom(Divide(sd, a, b), cols, k + 1)

NormalizeBoxes(sd, cols) == NormalizeFrom(sd, cols, 1)

\* lines 47-59: create_example unpacks exactly 11 array rows
CanUnpack(sd) == Len(sd) = 11

\* lines 60-93
create_example(separate_data, key, image_data) ==
    LET image == separate_data[1]
        image_file_name == SubSeq(image[1], 2, Len(image[1]))
    IN [img_height |-> separate_data[4][1],
        img_width |-> separate_data[3][1],
        image_path |-> Encode(image[1]),
        image_file |-> Encode(image_file_name),
        image_key |-> Encode(key),
        image_data |-> image_data,
        image_format |-> Encode(Last(image_file_name)),
        x_min |-> separate_data[5],
        y_min |-> separate_data[6],
        x_max |-> separate_data[7],
        y_max |-> separate_data[8],
        object_name |-> separate_data[2],
        object_id |-> separate_data[11]]

\* lines 151-155: the trainer's paths are chosen by the words of output_path
AssignTrainer(t, output_path) ==
    IF ~t.present THEN t
    ELSE LET t1 == IF Contains(output_path, "train")
                      THEN [t EXCEPT !.train_tf_record = output_path] ELSE t
         IN IF Contains(output_path, "test")
               THEN [t1 EXCEPT !.valid_tf_record = output_path] ELSE t1

\* lines 150-156: write_tf_record is entered and the container is opened
write_tf_record(at, output_path, subset, next) ==
    /\ pc = at
    /\ trainer' = AssignTrainer(trainer, output_path)
    /\ tfrecords' = [tfrecords EXCEPT ![output_path] =
                         [exists |-> TRUE, records |-> <<>>]]
    /\ open_writers' = open_writers \cup {output_path}
    /\ writer' = [output_path |-> output_path, groups |-> subset,
                  current_image |-> 0]
    /\ pc' = next
    /\ UNCHANGED <<columns, input, data, test_size, output_folder,
                   dataset_name, err, csv, groups, separation_index,
                   training_set, test_set, image_handles, reader_vars>>

\* line 226
WriteTraining ==
    write_tf_record("call_train", training_path, training_set, "write_train")

\* line 228
WriteTest ==
    write_tf_record("call_test", test_path, test_set, "write_test")

\* an exception leaves the with block of line 156, which closes the writer
RaiseInLoop(e) ==
    /\ Raise(e)
    /\ open_writers' = open_writers \ {writer.output_path}
    /\ tfrecords' = tfrecords

\* a writer that skips the image it cannot read
ImageFailureSkipped == UNCHANGED <<pc, err, open_writers, tfrecords>>

\* line 177: open() or read() raises, and nothing in the loop catches it
ImageFailure == RaiseInLoop("IOError")

\* the handle of open(image_path, 'rb') is never closed by the code: the
\* interpreter closes it when it finalises the file object, at once under
\* reference counting and at some later collection otherwise
Opened(h, kept) == IF kept THEN image_handles \cup {h} ELSE image_handles

\* lines 157-180, one pass of the loop
WriteExample ==
    /\ pc \in {"write_train", "write_test"}
    /\ writer.current_image < Len(writer.groups)
    /\ LET i == writer.current_image + 1
           image_path == writer.groups[i][1]
           objects == writer.groups[i][2]
           n == NormalizeBoxes(SeparateData(objects, columns), columns)
           h == <<writer.output_path, i>>
       IN /\ writer' = [writer EXCEPT !.current_image = i]
          /\ IF n.err # "none"
                THEN /\ RaiseInLoop(n.err)
                     /\ image_handles' = image_handles
                ELSE \E outcome \in {"read", "open fails", "read fails"},
                        kept \in BOOLEAN :
                       CASE outcome = "open fails" ->
                              /\ ImageFailure
                              /\ image_handles' = image_handles
                         [] outcome = "read fails" ->
                              /\ ImageFailure
                              /\ image_handles' = Opened(h, kept)
                         [] OTHER ->
                              /\ image_handles' = Opened(h, kept)
                              /\ IF CanUnpack(n.separate_data)
                                    THEN LET image_data == ImageData(image_path)
                                             key == Sha256Hex(image_data)
                                             example == create_example(
                                                 n.separate_data, key, image_data)
                                         IN /\ tfrecords' = [tfrecords EXCEPT
                                                  ![writer.output_path].records =
                                                      Append(@, example)]
                                            /\ UNCHANGED <<pc, err, open_writers>>
                                    ELSE RaiseInLoop("ValueError")
    /\ UNCHANGED <<columns, input, data, test_size, output_folder,
                   dataset_name, trainer, csv, groups, separation_index,
                   training_set, test_set, reader_vars>>

\* the loop is exhausted: the with block closes the writer (line 181)
CloseWriter ==
    /\ pc \in {"write_train", "write_test"}
    /\ writer.current_image = Len(writer.groups)
    /\ open_writers' = open_writers \ {writer.output_path}
    /\ pc' = IF pc = "write_train" THEN "call_test" ELSE "done"
    /\ UNCHANGED <<columns, input, data, test_size, output_folder,
                   dataset_name, trainer, err, csv, groups, separation_index,
                   training_set, test_set, tfrecords, writer, image_handles,
                   reader_vars>>

\* the interpreter finalises an unreferenced file object
Finalize ==
    /\ \E h \in image_handles : image_handles' = image_handles \ {h}
    /\ UNCHANGED <<columns, input, data, test_size, output_folder,
                   dataset_name, trainer, pc, err, csv, groups,
                   separation_index, training_set, test_set, tfrecords,
                   writer, open_writers, reader_vars>>

(***************************************************************************)
(* The write pipeline: one call of save_tfr                                *)
(***************************************************************************)
Init ==
    /\ columns \in {SpecColumns, CodeColumns}
    /\ input \in Tables(columns)
    /\ data = input
    /\ test_size \in TestSizes
    /\ output_folder \in Folders
    /\ dataset_name \in DatasetNames
    /\ \E present \in BOOLEAN :
          trainer = [present |-> present, train_tf_record |-> <<>>,
                     valid_tf_record |-> <<>>]
    /\ pc = "save_tfr"
    /\ err = "none"
    /\ csv = [f \in {"full_data.csv", "training_data.csv", "test_data.csv"}
                 |-> NoFile]
    /\ groups = <<>>
    /\ separation_index = 0
    /\ training_set = <<>>
    /\ test_set = <<>>
    /\ tfrecords = [p \in {training_path, test_path} |-> NoContainer]
    /\ writer = NoWriter
    /\ open_writers = {}
    /\ image_handles = {}
    /\ pattern = <<>>
    /\ max_boxes = 0
    /\ opens = <<>>

Next ==
    \/ Validate
    \/ Normalize
    \/ Split
    \/ Snapshots
    \/ WriteTraining
    \/ WriteExample
    \/ CloseWriter
    \/ WriteTest
    \/ Finalize

Spec == Init /\ [][Next]_vars


(***************************************************************************)
(* Properties of the write pipeline                                        *)
(***************************************************************************)
Ended == pc \in {"done", "raised"}

InputImages == {input[i]["image_path"] : i \in DOMAIN input}

InSnapshot(name, image) ==
    /\ csv[name].written
    /\ \E i \in DOMAIN csv[name].rows : csv[name].rows[i]["image_path"] = image

SubsetOf(path) == IF path = training_path THEN training_set ELSE test_set

\* C1: for test_size in (0,1) and n >= 1 groups, once save_tfr has ended the
\* two subsets hold n groups together and every image of the input is in
\* exactly one of training_data.csv and test_data.csv
C1_EveryImageInOneSnapshot ==
    (Ended /\ 0 < test_size /\ test_size < Denom) =>
        /\ Len(training_set) + Len(test_set) = Cardinality(InputImages)
        /\ \A image \in InputImages :
              InSnapshot("training_data.csv", image)
                  # InSnapshot("test_data.csv", image)

\* C2: for test_size in (0,1) and n >= 1 groups whose images can be read,
\* save_tfr completes with the first floor((1 - test_size) * n) shuffled
\* groups as training subset, the others as evaluation subset, and both
\* snapshots and both containers produced, also when that floor is 0
C2_PartitionProduced ==
    (Ended /\ 0 < test_size /\ test_size < Denom
           /\ columns = CodeColumns /\ err # "IOError") =>
        LET k == ((Denom - test_size) * Len(groups)) \div Denom
        IN /\ pc = "done"
           /\ training_set = SubSeq(groups, 1, k)
           /\ test_set = SubSeq(groups, k + 1, Len(groups))
           /\ csv["training_data.csv"].written
           /\ csv["test_data.csv"].written
           /\ tfrecords[training_path].exists
           /\ tfrecords[test_path].exists

\* C3: with test_size outside (0,1) save_tfr raises the assertion error and
\* has written no snapshot and no container, opened no handle and left the
\* table as it was given
C3_InvalidTestSizeRejected ==
    (test_size <= 0 \/ test_size >= Denom) =>
        /\ pc \in {"save_tfr", "raised"}
        /\ pc = "raised" => err = "AssertionError"
        /\ \A f \in DOMAIN csv : ~csv[f].written
        /\ \A p \in DOMAIN tfrecords : ~tfrecords[p].exists
        /\ data = input
        /\ open_writers = {}
        /\ image_handles = {}

C3_Witness ==
    /\ test_size = Denom
    /\ pc = "raised"
    /\ err = "AssertionError"

\* the record of a group, as the claim describes it: each coordinate is the
\* pixel value over the image dimension, the other fields come from the
\* columns of their names
StoresGroup(rec, objects) ==
    /\ rec.img_width = objects[1]["image_width"]
    /\ rec.img_height = objects[1]["image_height"]
    /\ \A f \in {"x_min", "y_min", "x_max", "y_max", "object_name",
                 "object_id"} : DOMAIN rec[f] = DOMAIN objects
    /\ \A i \in DOMAIN objects :
          LET o == objects[i]
          IN /\ rec.x_min[i] = Reduce(<<o["x_min"], o["image_width"]>>)
             /\ rec.x_max[i] = Reduce(<<o["x_max"], o["image_width"]>>)
             /\ rec.y_min[i] = Reduce(<<o["y_min"], o["image_height"]>>)
             /\ rec.y_max[i] = Reduce(<<o["y_max"], o["image_height"]>>)
             /\ rec.object_name[i] = o["object_name"]
             /\ rec.object_id[i] = o["object_id"]

C8_OneRecordPerGroup ==
    \A p \in DOMAIN tfrecords :
        tfrecords[p].exists =>
            LET recs == tfrecords[p].records
            IN /\ Len(recs) <= Len(SubsetOf(p))
               /\ \A j \in DOMAIN recs :
                     recs[j].image_path = Encode(SubsetOf(p)[j][1])
               /\ (p = writer.output_path /\ err = "none") =>
                     Len(recs) = writer.current_image
               /\ (p # writer.output_path \/ pc = "done") =>
                     Len(recs) = Len(SubsetOf(p))
               /\ (p = writer.output_path /\ err = "IOError") =>
                     /\ pc = "raised"
                     /\ Len(recs) = writer.current_image - 1

C8_Witness ==
    /\ err = "IOError"
    /\ writer.current_image = 1
    /\ Len(writer.groups) = 2
    /\ tfrecords[writer.output_path].records = <<>>

\* C9: no container handle and no image handle is open once a write has
\* returned or failed, and at most one image handle is open at any time
C9_HandlesClosed ==
    /\ Cardinality(image_handles) <= 1
    /\ pc \in {"call_test", "done", "raised"} =>
          /\ open_writers = {}
          /\ image_handles = {}

\* C10: with a trainer, after save_tfr completes train_tf_record is the path
\* of the training container and valid_tf_record the path of the evaluation
\* container
C10_TrainerPaths ==
    (pc = "done" /\ trainer.present) =>
        /\ trainer.train_tf_record = training_path
        /\ trainer.valid_tf_record = test_path


(***************************************************************************)
(* read_example and read_tfr                                               *)
(***************************************************************************)
\* the lines of classes_file
ClassesFile == <<Encode("bird"), Encode("cat")>>

\* StaticHashTable(TextFileInitializer(classes_file, tf.string, 0, tf.int64,
\* -1, delimiter), -1).lookup: the line number of the name counted from 0,
\* and -1 for a name that is on no line
Lookup(name) ==
    IF \E i \in DOMAIN ClassesFile : ClassesFile[i] = name
        THEN (CHOOSE i \in DOMAIN ClassesFile : ClassesFile[i] = name) - 1
        ELSE -1

\* tf.cast(n, tf.float32)
Float(n) == <<n, 1>>

ZeroRow == <<Float(0), Float(0), Float(0), Float(0), Float(0)>>

\* tf.image.decode_png(features['image_data'], channels=3)
DecodePng(image_data) == <<"pixels", image_data>>

\* tf.stack([x_min, y_min, x_max, y_max, label], 1)
Stack(features, label) ==
    [i \in DOMAIN label |->
        <<features.x_min[i], features.y_min[i], features.x_max[i],
          features.y_max[i], label[i]>>]

\* a tf.pad that puts the zero rows first
tf_pad_front(tensor, before, after) ==
    [ok |-> before >= 0 /\ after >= 0,
     tensor |-> IF before >= 0 /\ after >= 0
                   THEN [i \in 1..(before + after) |-> ZeroRow] \o tensor
                   ELSE <<>>]

\* tf.pad(tensor, [[before, after], [0, 0]]): zero rows around the tensor;
\* the op rejects a negative padding
tf_pad(tensor, before, after) ==
    [ok |-> before >= 0 /\ after >= 0,
     tensor |-> IF before >= 0 /\ after >= 0
                   THEN [i \in 1..before |-> ZeroRow] \o tensor
                            \o [i \in 1..after |-> ZeroRow]
                   ELSE <<>>]

\* a decoder that cuts the boxes of a crowded record down to max_boxes
read_example_truncating(example, boxes) ==
    LET label == [i \in DOMAIN example.object_name |->
                     Float(Lookup(example.object_name[i]))]
        y_train == Stack(example, label)
    IN [ok |-> TRUE,
        x_train |-> DecodePng(example.image_data),
        y_train |-> IF Len(y_train) > boxes THEN SubSeq(y_train, 1, boxes)
                    ELSE tf_pad(y_train, 0, boxes - Len(y_train)).tensor]

\* lines 117-135, with new_size=None and get_features=False
read_example(example, boxes) ==
    LET label == [i \in DOMAIN example.object_name |->
                     Float(Lookup(example.object_name[i]))]
        y_train == Stack(example, label)
        padded == tf_pad(y_train, 0, boxes - Len(y_train))
    IN [ok |-> padded.ok,
        x_train |-> DecodePng(example.image_data),
        y_train |-> padded.tensor]

\* a pattern of words matches a path of words; "*" stands for any words
RECURSIVE GlobMatch(_, _)
GlobMatch(pat, path) ==
    IF pat = <<>> THEN path = <<>>
    ELSE IF Head(pat) = "*"
        THEN \/ GlobMatch(Tail(pat), path)
             \/ path # <<>> /\ GlobMatch(pat, Tail(path))
    ELSE path # <<>> /\ Head(pat) = Head(path)
                     /\ GlobMatch(Tail(pat), Tail(path))

\* the containers tf.data.Dataset.list_files(tf_record_file) finds
Matched == {p \in DOMAIN tfrecords : tfrecords[p].exists /\ GlobMatch(pattern, p)}

\* a container read last record first
TFRecordDatasetReversed(path) ==
    [i \in DOMAIN tfrecords[path].records |->
        tfrecords[path].records[Len(tfrecords[path].records) + 1 - i]]

\* tf.data.TFRecordDataset(path): the records of the container, in file order
TFRecordDataset(path) == tfrecords[path].records

\* files.flat_map(tf.data.TFRecordDataset)
FlatMap(files) == Flatten([i \in DOMAIN files |-> TFRecordDataset(files[i])])

\* the groups whose records are read back: 1..MaxObjects rows of one image,
\* no row next to itself
ReadGroups ==
    LET rows == {r \in RowPool(CodeColumns) : r["image_path"] = ImageA}
    IN UNION { {g \in [1..k -> rows] : \A i \in 1..(k - 1) : g[i] # g[i + 1]} :
                 k \in 1..MaxObjects }

Iterating == opens # <<>> /\ Last(opens).status = "iterating"

\* line 180 seen from the container: r_writer.write appends one record
AppendRecord ==
    /\ opens = <<>>
    /\ \E path \in DOMAIN tfrecords :
          \E objects \in ReadGroups :
            LET rows == NormalizeData(objects)
                n == NormalizeBoxes(SeparateData(rows, columns), columns)
                image_data == ImageData(ImageA)
                example == create_example(n.separate_data,
                                          Sha256Hex(image_data), image_data)
            IN /\ Len(tfrecords[training_path].records)
                    + Len(tfrecords[test_path].records) < MaxRecords
               /\ tfrecords' = [tfrecords EXCEPT ![path] =
                      [exists |-> TRUE, records |-> Append(@.records, example)]]
    /\ UNCHANGED <<pipeline_vars, reader_vars>>

\* lines 260-263, once per iteration over the dataset: list_files is called
\* with its default shuffle=True and no seed, so the matching files come in
\* a fresh random order; without any match it raises
OpenDataset ==
    /\ Len(opens) < NumOpenings
    /\ ~Iterating
    /\ IF Matched = {}
          THEN opens' = Append(opens,
                   [files |-> <<>>, consumed |-> <<>>, out |-> <<>>,
                    status |-> "raised", err |-> "NotFoundError"])
          ELSE \E files \in Orderings(Matched) :
                 opens' = Append(opens,
                   [files |-> files, consumed |-> <<>>, out |-> <<>>,
                    status |-> "iterating", err |-> "none"])
    /\ UNCHANGED <<pipeline_vars, tfrecords, pattern, max_boxes>>

\* the next element of dataset.map(read_example): the next record of the
\* flat_map is decoded; a decoding error is raised to the consumer
NextElement ==
    /\ Iterating
    /\ LET o == Last(opens)
           stream == FlatMap(o.files)
       IN /\ Len(o.consumed) < Len(stream)
          /\ LET example == stream[Len(o.consumed) + 1]
                 r == read_example(example, max_boxes)
             IN opens' = [opens EXCEPT ![Len(opens)] =
                   IF r.ok
                      THEN [o EXCEPT !.consumed = Append(@, example),
                                     !.out = Append(@, [x_train |-> r.x_train,
                                                        y_train |-> r.y_train])]
                      ELSE [o EXCEPT !.consumed = Append(@, example),
                                     !.status = "raised",
                                     !.err = "InvalidArgumentError"]]
    /\ UNCHANGED <<pipeline_vars, tfrecords, pattern, max_boxes>>

\* the flat_map is exhausted
EndOfSequence ==
    /\ Iterating
    /\ Len(Last(opens).consumed) = Len(FlatMap(Last(opens).files))
    /\ opens' = [opens EXCEPT ![Len(opens)].status = "end"]
    /\ UNCHANGED <<pipeline_vars, tfrecords, pattern, max_boxes>>

ReadInit ==
    /\ columns = CodeColumns
    /\ input = <<>>
    /\ data = <<>>
    /\ test_size = 1
    /\ output_folder = <<"out">>
    /\ dataset_name = <<"coco">>
    /\ trainer = [present |-> FALSE, train_tf_record |-> <<>>,
                  valid_tf_record |-> <<>>]
    /\ pc = "done"
    /\ err = "none"
    /\ csv = [f \in {"full_data.csv", "training_data.csv", "test_data.csv"}
                 |-> NoFile]
    /\ groups = <<>>
    /\ separation_index = 0
    /\ training_set = <<>>
    /\ test_set = <<>>
    /\ tfrecords = [p \in {training_path, test_path} |-> NoContainer]
    /\ writer = NoWriter
    /\ open_writers = {}
    /\ image_handles = {}
    /\ pattern \in {training_path, output_folder \o <<"*", ".tfrecord">>}
    /\ max_boxes \in (MaxObjects - 1)..(MaxObjects + 1)
    /\ opens = <<>>

ReadNext ==
    \/ AppendRecord
    \/ OpenDataset
    \/ NextElement
    \/ EndOfSequence

ReadSpec == ReadInit /\ [][ReadNext]_vars


(***************************************************************************)
(* Properties of the reader                                                *)
(***************************************************************************)
Finished(o) == o.status # "iterating"

\* C4: a record with more objects than max_boxes makes the decoding fail:
\* the iteration raises at that record and no element is returned for it
C4_OverflowRaises ==
    \A a \in DOMAIN opens :
        LET o == opens[a]
        IN /\ \A j \in DOMAIN o.consumed :
                 Len(o.consumed[j].x_min) > max_boxes =>
                     /\ j = Len(o.consumed)
                     /\ o.status = "raised"
                     /\ o.err = "InvalidArgumentError"
                     /\ Len(o.out) = j - 1
           /\ \A j \in DOMAIN o.out :
                 /\ Len(o.out[j].y_train) = max_boxes
                 /\ Len(o.consumed[j].x_min) <= max_boxes

C4_Witness ==
    \E a \in DOMAIN opens :
        /\ opens[a].status = "raised"
        /\ opens[a].consumed # <<>>
        /\ Len(Last(opens[a].consumed).x_min) = max_boxes + 1

\* C5: a record with k <= max_boxes objects is decoded to max_boxes rows of
\* 5 columns: the first k rows are its objects in their order, as (x_min,
\* y_min, x_max, y_max, class id), and every other row is (0,0,0,0,0)
C5_PaddedBoxes ==
    \A a \in DOMAIN opens :
        \A j \in DOMAIN opens[a].consumed :
            LET rec == opens[a].consumed[j]
                k == Len(rec.x_min)
            IN k <= max_boxes =>
                /\ j \in DOMAIN opens[a].out
                /\ LET y == opens[a].out[j].y_train
                   IN /\ DOMAIN y = 1..max_boxes
                      /\ \A i \in 1..k :
                            y[i] = <<rec.x_min[i], rec.y_min[i], rec.x_max[i],
                                     rec.y_max[i],
                                     <<Lookup(rec.object_name[i]), 1>> >>
                      /\ \A i \in (k + 1)..max_boxes :
                            y[i] = << <<0, 1>>, <<0, 1>>, <<0, 1>>, <<0, 1>>,
                                      <<0, 1>> >>

C5_Witness ==
    \E a \in DOMAIN opens :
        \E j \in DOMAIN opens[a].out :
            /\ Len(opens[a].consumed[j].x_min) = 2
            /\ opens[a].consumed[j].x_min[1] # opens[a].consumed[j].x_min[2]
            /\ max_boxes = 3

ContainersIn(files) == Flatten([i \in DOMAIN files |-> tfrecords[files[i]].records])

IsPrefix(s, t) == Len(s) <= Len(t) /\ s = SubSeq(t, 1, Len(s))

\* C7 (as stated): two finished iterations over the same containers yield
\* the same sequence of elements
C7_SameSequence ==
    \A a, b \in DOMAIN opens :
        (Finished(opens[a]) /\ Finished(opens[b])) =>
            /\ opens[a].out = opens[b].out
            /\ opens[a].consumed = opens[b].consumed

\* C7 (as amended): an iteration reads the matching containers one after
\* the other, each from its first record in the order the writer appended
\* them; when the pattern matches one container, two finished iterations
\* yield the same sequence of elements
C7_Restartable ==
    \A a \in DOMAIN opens :
        LET o == opens[a]
        IN /\ Range(o.files) \subseteq Matched
           /\ IsPrefix(o.consumed, ContainersIn(o.files))
           /\ o.status = "end" => o.consumed = ContainersIn(o.files)
           /\ \A b \in DOMAIN opens :
                 (Cardinality(Matched) = 1 /\ Finished(o)
                      /\ Finished(opens[b])) =>
                     /\ o.out = opens[b].out
                     /\ o.consumed = opens[b].consumed

C7_Witness ==
    /\ Cardinality(Matched) = 1
    /\ Len(opens) = 2
    /\ opens[1].status = "end"
    /\ opens[2].status = "end"
    /\ Len(opens[1].out) = 2
    /\ opens[1].out[1] # opens[1].out[2]

====
